---- MODULE Spec2Model ----
(***************************************************************************)
(* Regression metrics of the accuracy checker                              *)
(* (tools/accuracy_checker/accuracy_checker/metrics/regression.py).        *)
(*                                                                         *)
(* One metric object is modelled: it is constructed with a provider name   *)
(* and a config, configured once, and then driven by update(), evaluate()  *)
(* and reset() calls in any order.                                         *)
(*                                                                         *)
(* Numbers.  A number is a record [num, den, root] that denotes            *)
(* (num/den)^(1/root), kept in lowest terms; den = 0 is NaN.  Mean,        *)
(* variance and the per-sample differences are therefore exact, and a      *)
(* square root that is not rational stays symbolic.                        *)
(* Optional config values are sequences: <<>> is None, <<v>> is v.         *)
(*                                                                         *)
(* Modelled classes: the mean/std metrics mae, mse and rmse on plain       *)
(* regression annotations, their *_on_interval variants, and the averaged  *)
(* landmark metric normed_error.  The masked depth-map diff, the per-point *)
(* landmark metric and the image and angle differs are left out: none of   *)
(* the properties below reads them.                                        *)
(*                                                                         *)
(* hist, evals and postConfigure are history variables: they record what   *)
(* the caller did and saw, and no action reads them to decide anything     *)
(* (hist only bounds the number of update() calls).                        *)
(***************************************************************************)
EXTENDS Integers, Sequences, FiniteSets, TLC

VARIABLES
    kind,                 \* __provider__ of the metric class
    config,               \* the config the object was constructed with
    phase,                \* "created", "configured" or "failed" (configure raised)
    meta,                 \* self.meta, a dict: key -> value
    ignore_out_of_range,  \* self.ignore_out_of_range
    intervals,            \* self.intervals
    dtype,                \* element type of self.intervals ("int64" / "float64")
    calculate_std,        \* self.calculate_std
    percentile,           \* self.percentile (<<>> is None)
    magnitude,            \* self.magnitude
    lastOp,               \* the method called last
    ret,                  \* what that call returned or raised
    stats,                \* evaluate(): the flattened vector before finalize_metric_result
    finalized,            \* evaluate(): the vector finalize_metric_result returned
    warned,               \* evaluate(): warnings.warn was called
    hist,                 \* arguments of the update() calls since configure()/reset()
    evals,                \* evaluate() calls since configure()/reset()
    postConfigure         \* magnitude and meta as configure() left them

vars == <<kind, config, phase, meta, ignore_out_of_range, intervals, dtype,
          calculate_std, percentile, magnitude, lastOp, ret, stats, finalized,
          warned, hist, evals, postConfigure>>

(***************************************************************************)
(* Bounds and input domains                                                *)
(***************************************************************************)
MaxSamples == 2

AnnotationValues == 0..3
PredictionValues == {0, 1}

BaseKinds == {"mae", "mse", "rmse"}
IntervalKinds == {"mae_on_interval", "mse_on_interval", "rmse_on_interval"}
LandmarkKinds == {"normed_error"}
Kinds == BaseKinds \cup IntervalKinds \cup LandmarkKinds

(***************************************************************************)
(* Numbers                                                                 *)
(***************************************************************************)
Abs(x) == IF x < 0 THEN -x ELSE x

RECURSIVE GCD(_, _)
GCD(a, b) == IF b = 0 THEN a ELSE GCD(b, a % b)

NaN == [num |-> 0, den |-> 0, root |-> 1]
IsNaN(x) == x.den = 0

Rat(n, d) ==
    IF d = 0 THEN NaN
    ELSE LET g == GCD(Abs(n), Abs(d))
             s == IF d < 0 THEN -1 ELSE 1
         IN  [num |-> (s * n) \div g, den |-> (s * d) \div g, root |-> 1]

Num(i) == Rat(i, 1)
Zero == Num(0)

RAdd(x, y) == Rat(x.num * y.den + y.num * x.den, x.den * y.den)
RSub(x, y) == Rat(x.num * y.den - y.num * x.den, x.den * y.den)
RMul(x, y) == Rat(x.num * y.num, x.den * y.den)
RLess(x, y) == x.num * y.den < y.num * x.den

IsSquare(n) == \E r \in 0..n : r * r = n
ISqrt(n) == CHOOSE r \in 0..n : r * r = n

RECURSIVE Canon(_)
Canon(x) ==
    IF x.root % 2 = 0 /\ IsSquare(x.num) /\ IsSquare(x.den)
    THEN Canon([num |-> ISqrt(x.num), den |-> ISqrt(x.den), root |-> x.root \div 2])
    ELSE x

\* np.sqrt
NSqrt(x) == IF IsNaN(x) THEN NaN ELSE Canon([x EXCEPT !.root = 2 * x.root])

RECURSIVE RSum(_)
RSum(values) ==
    IF values = <<>> THEN Zero ELSE RAdd(Head(values), RSum(Tail(values)))

Squares(values) == [i \in 1..Len(values) |-> RMul(values[i], values[i])]

\* np.mean: NaN on an empty sequence
Mean(values) ==
    IF values = <<>> THEN NaN ELSE RMul(RSum(values), Rat(1, Len(values)))

\* np.std: the square root of the population variance
Std(values) ==
    IF values = <<>> THEN NaN
    ELSE NSqrt(RSub(Mean(Squares(values)), RMul(Mean(values), Mean(values))))

(***************************************************************************)
(* Dicts and optional values                                               *)
(***************************************************************************)
EmptyDict == [k \in {} |-> 0]

\* dict.update({k: v})
DictSet(d, k, v) == [q \in DOMAIN d \cup {k} |-> IF q = k THEN v ELSE d[q]]

None == <<>>
Some(v) == <<v>>
IsNone(o) == o = <<>>
Value(o) == o[1]

\* Python truthiness of an optional number: None and 0 are both false
Truthy(o) == ~IsNone(o) /\ Value(o) # 0

Returned(values) == [status |-> "ok", value |-> values]
Raised(exception) == [status |-> exception, value |-> <<>>]

(***************************************************************************)
(* Pure helpers of regression.py                                           *)
(***************************************************************************)
mae_differ(annotation_val, prediction_val) == Abs(annotation_val - prediction_val)

mse_differ(annotation_val, prediction_val) ==
    (annotation_val - prediction_val) * (annotation_val - prediction_val)

\* the differ the class passes to its base constructor
value_differ(k, annotation_val, prediction_val) ==
    IF k \in {"mae", "mae_on_interval"}
    THEN mae_differ(annotation_val, prediction_val)
    ELSE mse_differ(annotation_val, prediction_val)

\* the scan of find_interval from position index on (0-based, as in the code)
RECURSIVE find_interval_from(_, _, _)
find_interval_from(value, points, index) ==
    IF index >= Len(points) THEN Len(points)
    ELSE IF value < points[index + 1] THEN index
    ELSE find_interval_from(value, points, index + 1)

\* the scan with the comparison value <= point
RECURSIVE find_interval_le_from(_, _, _)
find_interval_le_from(value, points, index) ==
    IF index >= Len(points) THEN Len(points)
    ELSE IF value <= points[index + 1] THEN index
    ELSE find_interval_le_from(value, points, index + 1)

find_interval_le(value, points) == find_interval_le_from(value, points, 0)

find_interval(value, points) == find_interval_from(value, points, 0)

\* np.arange(start, stop, step) for step > 0
RECURSIVE arange(_, _, _)
arange(start, stop, step) ==
    IF start < stop THEN <<start>> \o arange(start + step, stop, step) ELSE <<>>

\* np.unique: the sorted distinct elements
unique(values) ==
    LET S == {values[i] : i \in 1..Len(values)}
    IN  SortSeq(CHOOSE q \in [1..Cardinality(S) -> S] : {q[i] : i \in DOMAIN q} = S,
                LAMBDA a, b : a < b)

\* str() of an interval boundary
str(x, t) == IF t = "float64" THEN ToString(x) \o ".0" ELSE ToString(x)

\* list[1:-1]
Inner(list) == SubSeq(list, 2, Len(list) - 1)

EmptyBuckets(n) == [i \in 1..n |-> <<>>]

(***************************************************************************)
(* utils.finalize_metric_result: pairs values with names by position and   *)
(* drops every NaN value together with its name.                           *)
(***************************************************************************)
RECURSIVE finalize_metric_result(_, _)
finalize_metric_result(values, names) ==
    IF values = <<>> \/ names = <<>> THEN [values |-> <<>>, names |-> <<>>]
    ELSE LET rest == finalize_metric_result(Tail(values), Tail(names))
         IN  IF IsNaN(Head(values)) THEN rest
             ELSE [values |-> <<Head(values)>> \o rest.values,
                   names |-> <<Head(names)>> \o rest.names]

(***************************************************************************)
(* Construction                                                            *)
(***************************************************************************)
DefaultConfig ==
    [intervals |-> <<>>, start |-> 0, end |-> None, step |-> 1,
     ignore_values_not_in_interval |-> TRUE,
     calculate_std |-> FALSE, percentile |-> None]

ExplicitIntervals == {<<2>>, <<1, 2>>, <<3, 1, 2, 1>>}
EndValues == {None, Some(0), Some(1), Some(2)}
StepValues == {1, 2}
PercentileValues == {None, Some(0), Some(50), Some(100)}

IntervalConfigs ==
    {[DefaultConfig EXCEPT !.intervals = i, !.ignore_values_not_in_interval = g] :
        i \in ExplicitIntervals, g \in BOOLEAN}
    \cup
    {[DefaultConfig EXCEPT !.end = e, !.step = s, !.ignore_values_not_in_interval = g] :
        e \in EndValues, s \in StepValues, g \in BOOLEAN}

LandmarkConfigs ==
    {[DefaultConfig EXCEPT !.calculate_std = c, !.percentile = p] :
        c \in BOOLEAN, p \in PercentileValues}

ConfigsOf(k) ==
    IF k \in IntervalKinds THEN IntervalConfigs
    ELSE IF k \in LandmarkKinds THEN LandmarkConfigs
    ELSE {DefaultConfig}

Init ==
    /\ kind \in Kinds
    /\ config \in ConfigsOf(kind)
    /\ phase = "created"
    /\ meta = EmptyDict
    /\ ignore_out_of_range = TRUE
    /\ intervals = <<>>
    /\ dtype = "int64"
    /\ calculate_std = FALSE
    /\ percentile = None
    /\ magnitude = <<>>
    /\ lastOp = "__init__"
    /\ ret = Returned(<<>>)
    /\ stats = <<>>
    /\ finalized = <<>>
    /\ warned = FALSE
    /\ hist = <<>>
    /\ evals = 0
    /\ postConfigure = [magnitude |-> <<>>, meta |-> EmptyDict]

\* what a call that is not evaluate() leaves of evaluate()'s locals
NoEvaluateLocals == /\ stats' = <<>>
                    /\ finalized' = <<>>
                    /\ warned' = FALSE

(***************************************************************************)
(* configure()                                                             *)
(***************************************************************************)
RECURSIVE DictUpdate(_, _)
DictUpdate(d, pairs) ==
    IF pairs = <<>> THEN d
    ELSE DictUpdate(DictSet(d, Head(pairs)[1], Head(pairs)[2]), Tail(pairs))

\* BaseRegressionMetric.configure
ConfigureBase ==
    /\ phase = "created"
    /\ kind \in BaseKinds
    /\ meta' = DictUpdate(meta, << <<"names", <<"mean", "std">> >>, <<"scale", 1>>,
                                   <<"postfix", " ">>, <<"calculate_mean", FALSE>>,
                                   <<"target", "higher-worse">> >>)
    /\ magnitude' = <<>>
    /\ phase' = "configured"
    /\ lastOp' = "configure"
    /\ ret' = Returned(<<>>)
    /\ hist' = <<>>
    /\ evals' = 0
    /\ postConfigure' = [magnitude |-> magnitude', meta |-> meta']
    /\ NoEvaluateLocals
    /\ UNCHANGED <<kind, config, ignore_out_of_range, intervals, dtype,
                   calculate_std, percentile>>

\* the names _create_meta builds for the inner buckets, from bucket index on
RECURSIVE inner_names(_, _, _)
inner_names(points, t, index) ==
    IF index >= Len(points) THEN <<>>
    ELSE << "mean: <= " \o str(points[index], t) \o " < " \o str(points[index + 1], t),
            "std: <= " \o str(points[index], t) \o " < " \o str(points[index + 1], t) >>
         \o inner_names(points, t, index + 1)

\* BaseRegressionOnIntervals._create_meta, for a non-empty interval list
\* (with an empty one and out-of-range buckets reported, intervals[0] raises)
create_meta(points, t, ignore) ==
    (IF ~ignore
     THEN << "mean: < " \o str(points[1], t), "std: < " \o str(points[1], t) >>
     ELSE <<>>)
    \o inner_names(points, t, 1)
    \o (IF ~ignore
        THEN << "mean: > " \o str(points[Len(points)], t),
                "std: > " \o str(points[Len(points)], t) >>
        ELSE <<>>)

create_meta_raises(points, ignore) == ~ignore /\ points = <<>>

\* BaseRegressionOnIntervals.configure
ConfigureOnIntervals ==
    /\ phase = "created"
    /\ kind \in IntervalKinds
    /\ LET m1 == DictUpdate(meta, << <<"scale", 1>>, <<"postfix", " ">>,
                                     <<"calculate_mean", FALSE>>,
                                     <<"target", "higher-worse">> >>)
           ignore == config.ignore_values_not_in_interval
           given == config.intervals
       IN  /\ ignore_out_of_range' = ignore
           /\ IF given = <<>> /\ ~Truthy(config.end)
              THEN \* raise ConfigError
                   /\ meta' = m1
                   /\ intervals' = <<>>
                   /\ dtype' = dtype
                   /\ magnitude' = magnitude
                   /\ phase' = "failed"
                   /\ ret' = Raised("ConfigError")
              ELSE LET generated == given = <<>>
                       raw == IF generated
                              THEN arange(config.start, Value(config.end) + config.step,
                                          config.step)
                              ELSE given
                       points == unique(raw)
                       t == IF generated THEN "float64" ELSE "int64"
                   IN  /\ intervals' = points
                       /\ dtype' = t
                       /\ magnitude' = EmptyBuckets(Len(points) + 1)
                       /\ IF create_meta_raises(points, ignore)
                          THEN /\ meta' = DictSet(m1, "names", <<>>)
                               /\ phase' = "failed"
                               /\ ret' = Raised("IndexError")
                          ELSE /\ meta' = DictSet(m1, "names", create_meta(points, t, ignore))
                               /\ phase' = "configured"
                               /\ ret' = Returned(<<>>)
    /\ lastOp' = "configure"
    /\ hist' = <<>>
    /\ evals' = 0
    /\ postConfigure' = [magnitude |-> magnitude', meta |-> meta']
    /\ NoEvaluateLocals
    /\ UNCHANGED <<kind, config, calculate_std, percentile>>

\* FacialLandmarksNormedError.configure
ConfigureNormedError ==
    /\ phase = "created"
    /\ kind \in LandmarkKinds
    /\ calculate_std' = config.calculate_std
    /\ percentile' = config.percentile
    /\ meta' = DictUpdate(meta, << <<"scale", 1>>, <<"postfix", " ">>,
                                   <<"calculate_mean",
                                     ~config.calculate_std \/ ~Truthy(config.percentile)>>,
                                   <<"data_format", "{:.4f}">>,
                                   <<"target", "higher-worse">> >>)
    /\ magnitude' = <<>>
    /\ phase' = "configured"
    /\ lastOp' = "configure"
    /\ ret' = Returned(<<>>)
    /\ hist' = <<>>
    /\ evals' = 0
    /\ postConfigure' = [magnitude |-> magnitude', meta |-> meta']
    /\ NoEvaluateLocals
    /\ UNCHANGED <<kind, config, ignore_out_of_range, intervals, dtype>>

(***************************************************************************)
(* update()                                                                *)
(***************************************************************************)
EvalsCap == 2

\* a call that is neither configure(), reset() nor evaluate()
UpdateFrame(args) ==
    /\ lastOp' = "update"
    /\ hist' = Append(hist, args)
    /\ NoEvaluateLocals
    /\ UNCHANGED <<kind, config, phase, meta, ignore_out_of_range, intervals, dtype,
                   calculate_std, percentile, evals, postConfigure>>

\* BaseRegressionMetric._calculate_diff_regression_rep
calculate_diff(k, annotation, prediction) ==
    Num(value_differ(k, annotation, prediction))

\* BaseRegressionMetric.update
UpdateBase ==
    /\ phase = "configured"
    /\ kind \in {"mae", "mse"}
    /\ Len(hist) < MaxSamples
    /\ \E annotation \in AnnotationValues, prediction \in PredictionValues :
          LET diff == calculate_diff(kind, annotation, prediction)
          IN  /\ magnitude' = Append(magnitude, diff)
              /\ ret' = Returned(<<diff>>)
              /\ UpdateFrame(<<annotation, prediction>>)

\* the squared diff stored without its square root
rmse_sample_squared(annotation, prediction) ==
    calculate_diff("rmse", annotation, prediction)

\* the value RootMeanSquaredError.update stores for one sample
rmse_sample(annotation, prediction) ==
    NSqrt(calculate_diff("rmse", annotation, prediction))

\* RootMeanSquaredError.update
UpdateRMSE ==
    /\ phase = "configured"
    /\ kind = "rmse"
    /\ Len(hist) < MaxSamples
    /\ \E annotation \in AnnotationValues, prediction \in PredictionValues :
          LET rmse == rmse_sample(annotation, prediction)
          IN  /\ magnitude' = Append(magnitude, rmse)
              /\ ret' = Returned(<<rmse>>)
              /\ UpdateFrame(<<annotation, prediction>>)

\* self.magnitude[index].append(diff), index 0-based
bucket_append(buckets, index, diff) ==
    [buckets EXCEPT ![index + 1] = Append(@, diff)]

\* BaseRegressionOnIntervals.update; rooted: the caller gets np.sqrt of the diff
UpdateIntervals(annotation, prediction, rooted) ==
    LET index == find_interval(annotation, intervals)
        diff == Num(value_differ(kind, annotation, prediction))
    IN  /\ IF index < Len(magnitude)
           THEN /\ magnitude' = bucket_append(magnitude, index, diff)
                /\ ret' = Returned(<<IF rooted THEN NSqrt(diff) ELSE diff>>)
           ELSE /\ magnitude' = magnitude
                /\ ret' = Raised("IndexError")
        /\ UpdateFrame(<<annotation, prediction>>)

UpdateOnIntervals ==
    /\ phase = "configured"
    /\ kind \in {"mae_on_interval", "mse_on_interval"}
    /\ Len(hist) < MaxSamples
    /\ \E annotation \in AnnotationValues, prediction \in PredictionValues :
          UpdateIntervals(annotation, prediction, FALSE)

\* RootMeanSquaredErrorOnInterval.update
UpdateRMSEOnInterval ==
    /\ phase = "configured"
    /\ kind = "rmse_on_interval"
    /\ Len(hist) < MaxSamples
    /\ \E annotation \in AnnotationValues, prediction \in PredictionValues :
          UpdateIntervals(annotation, prediction, TRUE)

\* Landmark samples: two points each; the predicted points are off the annotated
\* ones by 0, 3, 4 or 5, so that every distance is rational.
LandmarkSamples ==
    [x_values : {<<0, 0>>}, y_values : {<<0, 0>>},
     prediction_x : {<<0, 0>>, <<3, 3>>},
     prediction_y : {<<0, 0>>, <<4, 0>>},
     interocular_distance : {1, 2}]

\* point_regression_differ: the L2 norm of every point's difference
point_regression_differ(ax, ay, px, py) ==
    [i \in 1..Len(ax) |->
        NSqrt(Num((ax[i] - px[i]) * (ax[i] - px[i]) + (ay[i] - py[i]) * (ay[i] - py[i])))]

\* the per-sample value of FacialLandmarksNormedError.update; np.maximum(d, eps)
\* is d for every interocular distance of LandmarkSamples
avg_result(sample) ==
    LET per_point_result == point_regression_differ(
            sample.x_values, sample.y_values, sample.prediction_x, sample.prediction_y)
        avg == RMul(RSum(per_point_result), Rat(1, Len(per_point_result)))
    IN  RMul(avg, Rat(1, sample.interocular_distance))

\* FacialLandmarksNormedError.update
UpdateNormedError ==
    /\ phase = "configured"
    /\ kind \in LandmarkKinds
    /\ Len(hist) < MaxSamples
    /\ \E sample \in LandmarkSamples :
          /\ magnitude' = Append(magnitude, avg_result(sample))
          /\ ret' = Returned(<<avg_result(sample)>>)
          /\ UpdateFrame(sample)

(***************************************************************************)
(* evaluate()                                                              *)
(***************************************************************************)
EvaluateFrame ==
    /\ lastOp' = "evaluate"
    /\ evals' = IF evals < EvalsCap THEN evals + 1 ELSE evals
    /\ UNCHANGED <<kind, config, phase, ignore_out_of_range, intervals, dtype,
                   calculate_std, percentile, hist, postConfigure>>

\* BaseRegressionMetric.evaluate
EvaluateBase ==
    /\ phase = "configured"
    /\ kind \in {"mae", "mse"}
    /\ ret' = Returned(<<Mean(magnitude), Std(magnitude)>>)
    /\ NoEvaluateLocals
    /\ EvaluateFrame
    /\ UNCHANGED <<magnitude, meta>>

\* RootMeanSquaredError.evaluate
EvaluateRMSE ==
    /\ phase = "configured"
    /\ kind = "rmse"
    /\ ret' = Returned(<<Mean(magnitude), Std(magnitude)>>)
    /\ NoEvaluateLocals
    /\ EvaluateFrame
    /\ UNCHANGED <<magnitude, meta>>

\* the buckets evaluate() reduces, which it also stores back in self.magnitude
reported(buckets, ignore) == IF ignore THEN Inner(buckets) ELSE buckets

\* the reduction without the empty-bucket case: zeros for an empty bucket
bucket_stats_unguarded(values) ==
    IF values # <<>> THEN <<Mean(values), Std(values)>> ELSE <<Zero, Zero>>

\* one bucket's [mean, std] in BaseRegressionOnIntervals.evaluate
bucket_stats(values) ==
    IF values # <<>> THEN <<Mean(values), Std(values)>> ELSE <<NaN, NaN>>

\* one bucket's [sqrt(mean), sqrt(std)] in RootMeanSquaredErrorOnInterval.evaluate
bucket_error(values) ==
    IF values # <<>> THEN <<NSqrt(Mean(values)), NSqrt(Std(values))>> ELSE <<NaN, NaN>>

\* if not result: warnings.warn(...); result.append(0)
with_fallback(result) == IF result = <<>> THEN <<Zero>> ELSE result

\* np.reshape(result, -1) of the rows [mean, std] of BaseRegressionOnIntervals.evaluate
RECURSIVE flat_stats(_)
flat_stats(buckets) ==
    IF buckets = <<>> THEN <<>>
    ELSE bucket_stats(Head(buckets)) \o flat_stats(Tail(buckets))

\* np.reshape(result, -1) of the rows of RootMeanSquaredErrorOnInterval.evaluate
RECURSIVE flat_errors(_)
flat_errors(buckets) ==
    IF buckets = <<>> THEN <<>>
    ELSE bucket_error(Head(buckets)) \o flat_errors(Tail(buckets))

\* the part the two interval evaluate() methods share, from the flattened rows on
EvaluateIntervals(flat) ==
    /\ stats' = flat
    /\ LET final == finalize_metric_result(stats', meta["names"])
       IN  /\ finalized' = final.values
           /\ meta' = DictSet(meta, "names", final.names)
    /\ warned' = (finalized' = <<>>)
    /\ ret' = Returned(with_fallback(finalized'))
    /\ EvaluateFrame

\* BaseRegressionOnIntervals.evaluate
EvaluateOnIntervals ==
    /\ phase = "configured"
    /\ kind \in {"mae_on_interval", "mse_on_interval"}
    /\ magnitude' = reported(magnitude, ignore_out_of_range)
    /\ EvaluateIntervals(flat_stats(magnitude'))

\* RootMeanSquaredErrorOnInterval.evaluate
EvaluateRMSEOnInterval ==
    /\ phase = "configured"
    /\ kind = "rmse_on_interval"
    /\ magnitude' = reported(magnitude, ignore_out_of_range)
    /\ EvaluateIntervals(flat_errors(magnitude'))

\* index = len(self.magnitude) / 100 * self.percentile; int(index)
\* (the float product truncates to the exact quotient for every count the
\* model reaches)
percentile_index(count, p) == (count * p) \div 100

\* FacialLandmarksNormedError.evaluate
EvaluateNormedError ==
    /\ phase = "configured"
    /\ kind \in LandmarkKinds
    /\ LET r1 == <<Mean(magnitude)>>
           n1 == <<"mean">>
           r2 == IF calculate_std THEN Append(r1, Std(magnitude)) ELSE r1
           n2 == IF calculate_std THEN Append(n1, "std") ELSE n1
       IN  IF Truthy(percentile)
           THEN LET sorted_magnitude == SortSeq(magnitude, RLess)
                    index == percentile_index(Len(magnitude), Value(percentile))
                IN  IF index < Len(sorted_magnitude)
                    THEN /\ ret' = Returned(Append(r2, sorted_magnitude[index + 1]))
                         /\ meta' = DictSet(meta, "names",
                                Append(n2, ToString(Value(percentile)) \o "th percentile"))
                    ELSE /\ ret' = Raised("IndexError")
                         /\ meta' = DictSet(meta, "names", n2)
           ELSE /\ ret' = Returned(r2)
                /\ meta' = DictSet(meta, "names", n2)
    /\ NoEvaluateLocals
    /\ EvaluateFrame
    /\ UNCHANGED magnitude

(***************************************************************************)
(* reset()                                                                 *)
(***************************************************************************)
ResetFrame ==
    /\ lastOp' = "reset"
    /\ ret' = Returned(<<>>)
    /\ hist' = <<>>
    /\ evals' = 0
    /\ NoEvaluateLocals
    /\ UNCHANGED <<kind, config, phase, ignore_out_of_range, intervals, dtype,
                   calculate_std, percentile, postConfigure>>

\* BaseRegressionMetric.reset
ResetBase ==
    /\ phase = "configured"
    /\ kind \in BaseKinds
    /\ magnitude' = <<>>
    /\ UNCHANGED meta
    /\ ResetFrame

\* BaseRegressionOnIntervals.reset
ResetOnIntervals ==
    /\ phase = "configured"
    /\ kind \in IntervalKinds
    /\ magnitude' = EmptyBuckets(Len(intervals) + 1)
    /\ meta' = DictSet(meta, "names", create_meta(intervals, dtype, ignore_out_of_range))
    /\ ResetFrame

\* FacialLandmarksNormedError.reset
ResetNormedError ==
    /\ phase = "configured"
    /\ kind \in LandmarkKinds
    /\ magnitude' = <<>>
    /\ UNCHANGED meta
    /\ ResetFrame

Next ==
    \/ ConfigureBase
    \/ ConfigureOnIntervals
    \/ ConfigureNormedError
    \/ UpdateBase
    \/ UpdateRMSE
    \/ UpdateOnIntervals
    \/ UpdateRMSEOnInterval
    \/ UpdateNormedError
    \/ EvaluateBase
    \/ EvaluateRMSE
    \/ EvaluateOnIntervals
    \/ EvaluateRMSEOnInterval
    \/ EvaluateNormedError
    \/ ResetBase
    \/ ResetOnIntervals
    \/ ResetNormedError

Spec == Init /\ [][Next]_vars

(***************************************************************************)
(* find_interval called on its own: SpecFind.  The value is hist[1], the   *)
(* boundary list is intervals and the returned index is ret.value[1].      *)
(* Values and boundaries are counted in halves, so that the boundaries     *)
(* [1, 2, 3] are <<2, 4, 6>> and the values 0.5, 1, 3, 10 are 1, 2, 6, 20; *)
(* find_interval only compares, which scaling does not change.             *)
(***************************************************************************)
MaxPoints == 3

FindBoundaries == {2, 4, 6}
FindValues == {1, 2, 3, 4, 6, 20}
FindPoints == UNION {[1..n -> FindBoundaries] : n \in 0..MaxPoints}

InitFind ==
    /\ kind = "find_interval"
    /\ config = DefaultConfig
    /\ phase = "created"
    /\ meta = EmptyDict
    /\ ignore_out_of_range = TRUE
    /\ intervals \in FindPoints
    /\ dtype = "int64"
    /\ calculate_std = FALSE
    /\ percentile = None
    /\ magnitude = <<>>
    /\ lastOp = "__init__"
    /\ ret = Returned(<<>>)
    /\ stats = <<>>
    /\ finalized = <<>>
    /\ warned = FALSE
    /\ hist \in {<<v>> : v \in FindValues}
    /\ evals = 0
    /\ postConfigure = [magnitude |-> <<>>, meta |-> EmptyDict]

CallFindInterval ==
    /\ kind = "find_interval"
    /\ lastOp = "__init__"
    /\ lastOp' = "find_interval"
    /\ ret' = Returned(<<find_interval(hist[1], intervals)>>)
    /\ UNCHANGED <<kind, config, phase, meta, ignore_out_of_range, intervals, dtype,
                   calculate_std, percentile, magnitude, stats, finalized, warned,
                   hist, evals, postConfigure>>

NextFind == CallFindInterval

SpecFind == InitFind /\ [][NextFind]_vars

(***************************************************************************)
(* Properties                                                              *)
(***************************************************************************)
Names == meta["names"]
HasNames(m) == "names" \in DOMAIN m
NamesOf(m) == IF HasNames(m) THEN Some(m["names"]) ELSE None
Evaluated == phase = "configured" /\ lastOp = "evaluate"
StrictlyIncreasing(points) ==
    \A i \in 1..(Len(points) - 1) : points[i] < points[i + 1]

\* C1: every evaluate() of an interval metric returns as many values as it
\* leaves names in meta['names'], the single-zero fallback included.
C1_ResultAlignedWithNames ==
    (Evaluated /\ kind \in IntervalKinds) => Len(ret.value) = Len(Names)

\* C2: evaluate() leaves the magnitude buffer as it was, and a second
\* evaluate() right after the first returns the same result.
C2_EvaluateIsPure ==
    [][/\ lastOp' = "evaluate" => magnitude' = magnitude
       /\ (lastOp = "evaluate" /\ lastOp' = "evaluate") => ret' = ret]_vars

\* C3: reset() gives back the state configure() left: the same (empty)
\* buffers, len(intervals)+1 of them for an interval metric, and the same names.
C3_ResetRestoresPostConfigure ==
    (phase = "configured" /\ lastOp = "reset") =>
        /\ magnitude = postConfigure.magnitude
        /\ NamesOf(meta) = NamesOf(postConfigure.meta)
        /\ kind \in IntervalKinds => magnitude = EmptyBuckets(Len(intervals) + 1)

\* C4: find_interval returns the first index whose boundary is above the value,
\* and the number of boundaries when there is none; with strictly increasing
\* boundaries a value equal to a boundary lands in the bucket above it; for the
\* boundaries [1, 2, 3] the values 0.5, 1, 3, 10 give 0, 1, 3, 3.
C4_FindIntervalFirstIndex ==
    lastOp = "find_interval" =>
        LET value == hist[1]
            index == ret.value[1]
        IN  /\ index \in 0..Len(intervals)
            /\ \A j \in 1..index : ~(value < intervals[j])
            /\ index < Len(intervals) => value < intervals[index + 1]
            /\ StrictlyIncreasing(intervals) =>
                   index = Cardinality({j \in 1..Len(intervals) : intervals[j] <= value})
            /\ intervals = <<2, 4, 6>> =>
                   /\ value = 1 => index = 0
                   /\ value = 2 => index = 1
                   /\ value = 6 => index = 3
                   /\ value = 20 => index = 3

C4_Witness ==
    /\ lastOp = "find_interval"
    /\ intervals = <<2, 4, 6>>
    /\ hist[1] = 2
    /\ ret.value[1] = 1

\* the first evaluate() after configure()/reset() of an interval metric that
\* ignores out-of-range values, after at least one update(), all of them with a
\* ground truth in [first boundary, last boundary)
FirstEvaluateAllInRange ==
    /\ Evaluated
    /\ kind \in IntervalKinds
    /\ ignore_out_of_range
    /\ evals = 1
    /\ hist # <<>>
    /\ intervals # <<>>
    /\ \A i \in 1..Len(hist) :
          intervals[1] <= hist[i][1] /\ hist[i][1] < intervals[Len(intervals)]

\* the in-range buckets that got a sample, by the ground truths of the updates
FilledBuckets ==
    {b \in 1..(Len(intervals) - 1) :
        \E i \in 1..Len(hist) :
            intervals[b] <= hist[i][1] /\ hist[i][1] < intervals[b + 1]}

\* C5 as stated: with every ground truth in range the result has
\* 2 * (number of boundaries - 1) values.
C5_AllInRangeFullLength ==
    FirstEvaluateAllInRange => Len(ret.value) = 2 * (Len(intervals) - 1)

\* C5 amended: with every ground truth in range the result has two values for
\* every in-range bucket that received a sample, which is
\* 2 * (number of boundaries - 1) only when each of them received one.
C5_InRangeLengthCountsFilledBuckets ==
    FirstEvaluateAllInRange =>
        /\ Len(ret.value) = 2 * Cardinality(FilledBuckets)
        /\ Len(ret.value) <= 2 * (Len(intervals) - 1)

C5_Witness ==
    /\ FirstEvaluateAllInRange
    /\ Len(intervals) = 3
    /\ Len(ret.value) = 2

\* C6: in an interval metric's evaluate() an empty bucket gives (NaN, NaN), and
\* when nothing is left after the NaN filtering evaluate() warns and returns
\* exactly [0], without raising.
C6_EmptyBucketsNaNAndZeroFallback ==
    (Evaluated /\ kind \in IntervalKinds) =>
        /\ ret.status = "ok"
        /\ Len(stats) = 2 * Len(magnitude)
        /\ \A b \in 1..Len(magnitude) :
              magnitude[b] = <<>> => IsNaN(stats[2 * b - 1]) /\ IsNaN(stats[2 * b])
        /\ finalized = <<>> => warned /\ ret.value = <<Zero>>
        /\ finalized # <<>> => ~warned /\ ret.value = finalized

C6_Witness ==
    /\ Evaluated
    /\ kind \in IntervalKinds
    /\ hist # <<>>
    /\ \E b \in 1..Len(magnitude) : magnitude[b] = <<>> /\ IsNaN(stats[2 * b])
    /\ warned
    /\ ret = Returned(<<Zero>>)

\* C7: configure() of an interval metric raises ConfigError only if neither a
\* non-empty interval list nor an end value is given, and then builds nothing.
C7_ConfigErrorOnlyWhenUnspecified ==
    (lastOp = "configure" /\ kind \in IntervalKinds) =>
        /\ ret.status = "ConfigError" <=>
              (config.intervals = <<>> /\ IsNone(config.end))
        /\ ret.status = "ConfigError" =>
              intervals = <<>> /\ magnitude = <<>> /\ ~HasNames(meta)

RECURSIVE SumAbsDiff(_)
SumAbsDiff(samples) ==
    IF samples = <<>> THEN 0
    ELSE Abs(Head(samples)[1] - Head(samples)[2]) + SumAbsDiff(Tail(samples))

SquaredDiffs(samples) ==
    [i \in 1..Len(samples) |->
        (samples[i][1] - samples[i][2]) * (samples[i][1] - samples[i][2])]

\* C8: the RMSE metric stores and returns the square root of each sample's
\* squared diff, and evaluate() reports the mean of these roots: 2.5 for the
\* squared diffs [4, 9].
C8_RMSEMeanOfRoots ==
    (phase = "configured" /\ kind = "rmse") =>
        /\ Len(magnitude) = Len(hist)
        /\ lastOp = "update" =>
              LET sample == hist[Len(hist)]
              IN  /\ ret.value = <<Num(Abs(sample[1] - sample[2]))>>
                  /\ magnitude[Len(magnitude)] = ret.value[1]
        /\ (lastOp = "evaluate" /\ hist # <<>>) =>
              ret.value[1] = Rat(SumAbsDiff(hist), Len(hist))
        /\ (lastOp = "evaluate" /\ SquaredDiffs(hist) = <<4, 9>>) =>
              ret.value[1] = Rat(5, 2)

C8_Witness ==
    /\ kind = "rmse"
    /\ lastOp = "evaluate"
    /\ SquaredDiffs(hist) = <<4, 9>>
    /\ ret.value[1] = Rat(5, 2)

\* C9: a configured interval metric always holds len(intervals)+1 buffers, and
\* update() never indexes outside them.
C9_BucketCountInvariant ==
    (phase = "configured" /\ kind \in IntervalKinds) =>
        /\ Len(magnitude) = Len(intervals) + 1
        /\ lastOp = "update" => ret.status = "ok"

\* C10, for the percentiles 1..100 of its 0..100: with such a percentile
\* configured and at least one sample, evaluate() of the averaged landmark
\* metric appends the element of the sorted buffer at index
\* floor(count / 100 * percentile), which is a position of the buffer, and the
\* name '<percentile>th percentile'.
C10_PercentileIndexValid ==
    (Evaluated /\ kind \in LandmarkKinds /\ Truthy(percentile) /\ magnitude # <<>>) =>
        LET count == Len(magnitude)
            index == (count * Value(percentile)) \div 100
        IN  /\ index \in 0..(count - 1)
            /\ ret.status = "ok"
            /\ ret.value[Len(ret.value)] = SortSeq(magnitude, RLess)[index + 1]
            /\ Names[Len(Names)] = ToString(Value(percentile)) \o "th percentile"

====
